---- MODULE Spec2Model ----
(***************************************************************************)
(* The wallet/signer registry of the lwk app (app/src/state.rs): the two   *)
(* HashMap-backed registries Wollets and Signers held by State, with every *)
(* operation translated from its Rust body.                                *)
(***************************************************************************)
EXTENDS Integers, FiniteSets, Sequences, Bags, TLC

\* ---------------------------------------------------------------- bounds
MaxNames == 2   \* names are 1..MaxNames
MaxDesc == 3    \* wallet descriptors are 0..MaxDesc
MaxTip == 1     \* wallet-internal sync state is 0..MaxTip
MaxKey == 3     \* in-process signer keys are 0..MaxKey
MaxHandlers == 2 \* concurrent RPC handlers are 1..MaxHandlers
MaxBlocks == 3  \* a markdown document has at most MaxBlocks blocks
MaxLines == 2   \* of at most MaxLines lines each

Names == 1..MaxNames

\* ------------------------------------------------------- results, errors
\* tiny_jrpc::Result: Ok(value) or Err(TinyRpcError::Kind(name)).
Ok(v) == [kind |-> "Ok", val |-> v]
Unit == [unit |-> TRUE]
WalletNotExist(n) == [kind |-> "WalletNotExist", name |-> n]
WalletAlreadyLoaded(n) == [kind |-> "WalletAlreadyLoaded", name |-> n]
SignerNotExist(n) == [kind |-> "SignerNotExist", name |-> n]
SignerAlreadyLoaded(n) == [kind |-> "SignerAlreadyLoaded", name |-> n]
Generic(msg) == [kind |-> "Generic", msg |-> msg]
\* Result::unwrap() on an Err: the thread panics, nothing is returned.
Panic == [kind |-> "Panic"]

IsErr(r) == r.kind \notin {"Ok", "Panic"}

\* ------------------------------------------------------------- entities
\* A Wollet as the registry sees it: the outcome of address(Some(0)), which
\* is a Result (state.rs unwraps it), fixed by the descriptor; descriptors
\* 2k-1 and 2k derive the same first address, descriptor 0 derives none.
\* tip is wallet-internal state that a handler refreshes through get_mut.
Wollet(d, t) ==
    [descriptor |-> d,
     address0 |-> IF d = 0 THEN [ok |-> FALSE] ELSE [ok |-> TRUE, v |-> (d + 1) \div 2],
     tip |-> t]

NewWollets == {Wollet(d, 0) : d \in 0..MaxDesc}

\* An AnySigner: the outcome of fingerprint(), a Result, fixed by its key;
\* keys 2k-1 and 2k derive the same fingerprint, key 0 derives none.
AnySigner(k) ==
    [key |-> k,
     fingerprint |-> IF k = 0 THEN [ok |-> FALSE] ELSE [ok |-> TRUE, v |-> (k + 1) \div 2]]

AvailableSigner(s) == [variant |-> "AvailableSigner", signer |-> s]
ExternalSigner(f) == [variant |-> "ExternalSigner", fp |-> f]

\* External signers are given the fingerprints the keys derive.
AppSigners ==
    {AvailableSigner(AnySigner(k)) : k \in 0..MaxKey}
        \cup {ExternalSigner(AnySigner(k).fingerprint.v) : k \in 1..MaxKey}

\* AppSigner::fingerprint before the unwrap: the Result it is computed from.
fingerprint(self) ==
    IF self.variant = "AvailableSigner"
    THEN self.signer.fingerprint
    ELSE [ok |-> TRUE, v |-> self.fp]

\* ------------------------------------------------------------ HashMap
Empty == << >>
contains_key(map, name) == name \in DOMAIN map
Put(map, name, v) == [n \in DOMAIN map \cup {name} |-> IF n = name THEN v ELSE map[n]]
Del(map, name) == [n \in DOMAIN map \ {name} |-> map[n]]
\* Variant: every key is paired with every value.
iter_cross(map) ==
    LET keys == DOMAIN map IN
    [e \in {<<n, map[m]>> : n \in keys, m \in keys} |->
        Cardinality({m \in keys : map[m] = e[2]})]

\* iter(): the bag of the items the iterator yields, in no particular order.
iter(map) == SetToBag({<<n, map[n]>> : n \in DOMAIN map})

\* ------------------------------------------------------------- Wollets
\* The closure a of Wollets::insert: w.address(Some(0)).unwrap()...to_string()
a(w) == w.address0

Wollets_get(self, name) ==
    IF contains_key(self, name) THEN Ok(self[name]) ELSE WalletNotExist(name)

Wollets_get_mut(self, name) ==
    IF contains_key(self, name) THEN Ok(self[name]) ELSE WalletNotExist(name)

\* Variant: no scan for an entry with the same first address.
Wollets_insert_skip_address(self, name, wollet) ==
    IF contains_key(self, name)
    THEN {[reg |-> self, res |-> WalletAlreadyLoaded(name)]}
    ELSE {[reg |-> Put(self, name, wollet), res |-> Ok(Unit)]}

\* Variant: the entry is stored before the scan, and stays on an address match.
Wollets_insert_store_first(self, name, wollet) ==
    IF contains_key(self, name)
    THEN {[reg |-> self, res |-> WalletAlreadyLoaded(name)]}
    ELSE IF DOMAIN self # {} /\ (~a(wollet).ok \/ \E n \in DOMAIN self : ~a(self[n]).ok)
    THEN {[reg |-> self, res |-> Panic]}
    ELSE LET vec == {n \in DOMAIN self : a(self[n]) = a(wollet)} IN
         IF vec # {}
         THEN {[reg |-> Put(self, name, wollet), res |-> WalletAlreadyLoaded(existing)] :
                   existing \in vec}
         ELSE {[reg |-> Put(self, name, wollet), res |-> Ok(Unit)]}

\* Variant: an address match is reported under the rejected name.
Wollets_insert_rejected_name(self, name, wollet) ==
    IF contains_key(self, name)
    THEN {[reg |-> self, res |-> WalletAlreadyLoaded(name)]}
    ELSE IF DOMAIN self # {} /\ (~a(wollet).ok \/ \E n \in DOMAIN self : ~a(self[n]).ok)
    THEN {[reg |-> self, res |-> Panic]}
    ELSE LET vec == {n \in DOMAIN self : a(self[n]) = a(wollet)} IN
         IF vec # {}
         THEN {[reg |-> self, res |-> WalletAlreadyLoaded(name)]}
         ELSE {[reg |-> Put(self, name, wollet), res |-> Ok(Unit)]}

\* Variant: the scan for the address comes before the check of the name.
Wollets_insert_identity_first(self, name, wollet) ==
    IF DOMAIN self # {} /\ (~a(wollet).ok \/ \E n \in DOMAIN self : ~a(self[n]).ok)
    THEN {[reg |-> self, res |-> Panic]}
    ELSE LET vec == {n \in DOMAIN self : a(self[n]) = a(wollet)} IN
         IF vec # {}
         THEN {[reg |-> self, res |-> WalletAlreadyLoaded(existing)] : existing \in vec}
         ELSE IF contains_key(self, name)
         THEN {[reg |-> self, res |-> WalletAlreadyLoaded(name)]}
         ELSE {[reg |-> Put(self, name, wollet), res |-> Ok(Unit)]}

\* The possible outcomes [reg, res] of insert. The filter runs a(w) == a(&wollet)
\* on every existing entry, so with at least one entry every derivation that
\* fails panics in unwrap; vec.first() is the first match in HashMap order.
Wollets_insert(self, name, wollet) ==
    IF contains_key(self, name)
    THEN {[reg |-> self, res |-> WalletAlreadyLoaded(name)]}
    ELSE IF DOMAIN self # {} /\ (~a(wollet).ok \/ \E n \in DOMAIN self : ~a(self[n]).ok)
    THEN {[reg |-> self, res |-> Panic]}
    ELSE LET vec == {n \in DOMAIN self : a(self[n]) = a(wollet)} IN
         IF vec # {}
         THEN {[reg |-> self, res |-> WalletAlreadyLoaded(existing)] : existing \in vec}
         ELSE {[reg |-> Put(self, name, wollet), res |-> Ok(Unit)]}

\* Variant: remove hands out the entry and keeps it in the map.
Wollets_remove_keep(self, name) ==
    IF contains_key(self, name)
    THEN [reg |-> self, res |-> Ok(self[name])]
    ELSE [reg |-> self, res |-> WalletNotExist(name)]

Wollets_remove(self, name) ==
    IF contains_key(self, name)
    THEN [reg |-> Del(self, name), res |-> Ok(self[name])]
    ELSE [reg |-> self, res |-> WalletNotExist(name)]

Wollets_iter(self) == iter(self)

\* ------------------------------------------------------------- Signers
Signers_get(self, name) ==
    IF contains_key(self, name) THEN Ok(self[name]) ELSE SignerNotExist(name)

\* Variant: the error of the wallet registry, copied over.
Signers_get_mut_wallet_error(self, name) ==
    IF contains_key(self, name) THEN Ok(self[name]) ELSE WalletNotExist(name)

Signers_get_mut(self, name) ==
    IF contains_key(self, name) THEN Ok(self[name]) ELSE SignerNotExist(name)

\* Variant: no check of the variant.
Signers_get_available_unchecked(self, name) ==
    LET r == Signers_get(self, name) IN
    IF r.kind # "Ok" THEN r
    ELSE IF r.val.variant = "AvailableSigner" THEN Ok(r.val.signer)
    ELSE Ok(r.val)

Signers_get_available(self, name) ==
    LET r == Signers_get(self, name) IN
    IF r.kind # "Ok" THEN r
    ELSE IF r.val.variant = "AvailableSigner" THEN Ok(r.val.signer)
    ELSE Generic("Invalid operation for external signer")

\* Variant: no scan for an entry with the same fingerprint.
Signers_insert_skip_fingerprint(self, name, signer) ==
    IF contains_key(self, name)
    THEN {[reg |-> self, res |-> SignerAlreadyLoaded(name)]}
    ELSE {[reg |-> Put(self, name, signer), res |-> Ok(Unit)]}

\* Variant: the scan compares the signers themselves, not their fingerprints.
Signers_insert_same_signer(self, name, signer) ==
    IF contains_key(self, name)
    THEN {[reg |-> self, res |-> SignerAlreadyLoaded(name)]}
    ELSE IF DOMAIN self # {}
            /\ (~fingerprint(signer).ok \/ \E n \in DOMAIN self : ~fingerprint(self[n]).ok)
    THEN {[reg |-> self, res |-> Panic]}
    ELSE LET vec == {n \in DOMAIN self : self[n] = signer} IN
         IF vec # {}
         THEN {[reg |-> self, res |-> SignerAlreadyLoaded(existing)] : existing \in vec}
         ELSE {[reg |-> Put(self, name, signer), res |-> Ok(Unit)]}

\* Variant: no contains_key check; HashMap::insert replaces the entry.
Signers_insert_replace(self, name, signer) ==
    IF DOMAIN self \ {name} # {}
       /\ (~fingerprint(signer).ok \/ \E n \in DOMAIN self : ~fingerprint(self[n]).ok)
    THEN {[reg |-> self, res |-> Panic]}
    ELSE LET vec == {n \in DOMAIN self \ {name} : fingerprint(self[n]) = fingerprint(signer)} IN
         IF vec # {}
         THEN {[reg |-> self, res |-> SignerAlreadyLoaded(existing)] : existing \in vec}
         ELSE {[reg |-> Put(self, name, signer), res |-> Ok(Unit)]}

\* The possible outcomes [reg, res] of insert; the filter unwraps the
\* fingerprint of every existing entry and of the new signer.
Signers_insert(self, name, signer) ==
    IF contains_key(self, name)
    THEN {[reg |-> self, res |-> SignerAlreadyLoaded(name)]}
    ELSE IF DOMAIN self # {}
            /\ (~fingerprint(signer).ok \/ \E n \in DOMAIN self : ~fingerprint(self[n]).ok)
    THEN {[reg |-> self, res |-> Panic]}
    ELSE LET vec == {n \in DOMAIN self : fingerprint(self[n]) = fingerprint(signer)} IN
         IF vec # {}
         THEN {[reg |-> self, res |-> SignerAlreadyLoaded(existing)] : existing \in vec}
         ELSE {[reg |-> Put(self, name, signer), res |-> Ok(Unit)]}

Signers_remove(self, name) ==
    IF contains_key(self, name)
    THEN [reg |-> Del(self, name), res |-> Ok(self[name])]
    ELSE [reg |-> self, res |-> SignerNotExist(name)]

Signers_iter(self) == iter(self)

\* --------------------------------------------------------------- State
VARIABLES
    config,     \* State.config, read-only
    wollets,    \* State.wollets.0
    signers,    \* State.signers.0
    last        \* the last call made on the state and what it returned

\* The RPC handlers that share the State behind its lock.
VARIABLES
    lock,       \* the handlers that hold the guard of the State lock
    pc,         \* where each handler is
    req,        \* the call each handler makes in its critical section
    ret,        \* what that call returned to the handler
    seq,        \* the registry of the same calls made one after the other,
                \* in the order the lock was taken
    exp         \* what each call returned there

hvars == <<lock, pc, req, ret, seq, exp>>

\* One run of parse_code_from_markdown.
VARIABLES
    markdown_input,  \* the document
    code_kind,       \* the kind asked for
    parser,          \* the events the parser has yet to give
    result,
    str,
    active

pvars == <<markdown_input, code_kind, parser, result, str, active>>

vars == <<config, wollets, signers, last, hvars, pvars>>

Call(op, name, arg, res) == [op |-> op, name |-> name, arg |-> arg, res |-> res]

Handlers == 1..MaxHandlers
NoReq == [op |-> "none"]
NoRet == [kind |-> "none"]

\* State::default()
InitState ==
    /\ config = "Config::default"
    /\ wollets = Empty
    /\ signers = Empty
    /\ last = [op |-> "State::default", res |-> Ok(Unit)]

\* No handler has asked for the lock yet.
InitHandlers ==
    /\ lock = {}
    /\ pc = [h \in Handlers |-> "idle"]
    /\ req = [h \in Handlers |-> NoReq]
    /\ ret = [h \in Handlers |-> NoRet]
    /\ seq = Empty
    /\ exp = [h \in Handlers |-> NoRet]

\* parse_code_from_markdown is not running.
InitNoParse ==
    /\ markdown_input = << >>
    /\ code_kind = "none"
    /\ parser = << >>
    /\ result = << >>
    /\ str = << >>
    /\ active = FALSE

Init == InitState /\ InitHandlers /\ InitNoParse

\* A panic ends the calling thread; no call follows one here.
Running == last.res.kind # "Panic"

WolletsGet(name) ==
    /\ Running
    /\ UNCHANGED <<hvars, pvars>>
    /\ last' = Call("Wollets::get", name, Unit, Wollets_get(wollets, name))
    /\ UNCHANGED <<config, wollets, signers>>

WolletsGetMut(name) ==
    /\ Running
    /\ UNCHANGED <<hvars, pvars>>
    /\ last' = Call("Wollets::get_mut", name, Unit, Wollets_get_mut(wollets, name))
    /\ UNCHANGED <<config, wollets, signers>>

\* get_mut, and the handler refreshing the wallet's internal state through
\* the reference it got.
WolletsGetMutRefresh(name, t) ==
    /\ Running
    /\ UNCHANGED <<hvars, pvars>>
    /\ LET r == Wollets_get_mut(wollets, name) IN
       /\ last' = Call("Wollets::get_mut", name, t, r)
       /\ wollets' = IF r.kind = "Ok"
                     THEN [wollets EXCEPT ![name].tip = t]
                     ELSE wollets
    /\ UNCHANGED <<config, signers>>

\* Variant: one namespace for both registries.
WolletsInsert_shared_names(name, wollet) ==
    /\ Running
    /\ UNCHANGED <<hvars, pvars>>
    /\ IF contains_key(signers, name)
       THEN /\ wollets' = wollets
            /\ last' = Call("Wollets::insert", name, wollet, WalletAlreadyLoaded(name))
       ELSE \E out \in Wollets_insert(wollets, name, wollet) :
               /\ wollets' = out.reg
               /\ last' = Call("Wollets::insert", name, wollet, out.res)
    /\ UNCHANGED <<config, signers>>

WolletsInsert(name, wollet) ==
    /\ Running
    /\ UNCHANGED <<hvars, pvars>>
    /\ \E out \in Wollets_insert(wollets, name, wollet) :
         /\ wollets' = out.reg
         /\ last' = Call("Wollets::insert", name, wollet, out.res)
    /\ UNCHANGED <<config, signers>>

WolletsRemove(name) ==
    /\ Running
    /\ UNCHANGED <<hvars, pvars>>
    /\ LET out == Wollets_remove(wollets, name) IN
         /\ wollets' = out.reg
         /\ last' = Call("Wollets::remove", name, Unit, out.res)
    /\ UNCHANGED <<config, signers>>

\* Variant: the iterator drains the map.
WolletsIter_drain ==
    /\ Running
    /\ UNCHANGED <<hvars, pvars>>
    /\ last' = [op |-> "Wollets::iter", res |-> Ok(Wollets_iter(wollets))]
    /\ wollets' = Empty
    /\ UNCHANGED <<config, signers>>

WolletsIter ==
    /\ Running
    /\ UNCHANGED <<hvars, pvars>>
    /\ last' = [op |-> "Wollets::iter", res |-> Ok(Wollets_iter(wollets))]
    /\ UNCHANGED <<config, wollets, signers>>

SignersGet(name) ==
    /\ Running
    /\ UNCHANGED <<hvars, pvars>>
    /\ last' = Call("Signers::get", name, Unit, Signers_get(signers, name))
    /\ UNCHANGED <<config, wollets, signers>>

SignersGetMut(name) ==
    /\ Running
    /\ UNCHANGED <<hvars, pvars>>
    /\ last' = Call("Signers::get_mut", name, Unit, Signers_get_mut(signers, name))
    /\ UNCHANGED <<config, wollets, signers>>

\* get_mut, and the caller writing signer s through the reference it got.
SignersGetMutWrite(name, s) ==
    /\ Running
    /\ UNCHANGED <<hvars, pvars>>
    /\ LET r == Signers_get_mut(signers, name) IN
       /\ last' = Call("Signers::get_mut", name, s, r)
       /\ signers' = IF r.kind = "Ok" THEN [signers EXCEPT ![name] = s] ELSE signers
    /\ UNCHANGED <<config, wollets>>

\* Variant: the signer is taken out of the map to hand it out.
SignersGetAvailable_take(name) ==
    /\ Running
    /\ UNCHANGED <<hvars, pvars>>
    /\ last' = Call("Signers::get_available", name, Unit, Signers_get_available(signers, name))
    /\ signers' = Signers_remove(signers, name).reg
    /\ UNCHANGED <<config, wollets>>

SignersGetAvailable(name) ==
    /\ Running
    /\ UNCHANGED <<hvars, pvars>>
    /\ last' = Call("Signers::get_available", name, Unit, Signers_get_available(signers, name))
    /\ UNCHANGED <<config, wollets, signers>>

SignersInsert(name, signer) ==
    /\ Running
    /\ UNCHANGED <<hvars, pvars>>
    /\ \E out \in Signers_insert(signers, name, signer) :
         /\ signers' = out.reg
         /\ last' = Call("Signers::insert", name, signer, out.res)
    /\ UNCHANGED <<config, wollets>>

SignersRemove(name) ==
    /\ Running
    /\ UNCHANGED <<hvars, pvars>>
    /\ LET out == Signers_remove(signers, name) IN
         /\ signers' = out.reg
         /\ last' = Call("Signers::remove", name, Unit, out.res)
    /\ UNCHANGED <<config, wollets>>

SignersIter ==
    /\ Running
    /\ UNCHANGED <<hvars, pvars>>
    /\ last' = [op |-> "Signers::iter", res |-> Ok(Signers_iter(signers))]
    /\ UNCHANGED <<config, wollets, signers>>

Next ==
    \/ \E name \in Names : WolletsGet(name)
    \/ \E name \in Names : WolletsGetMut(name)
    \/ \E name \in Names, wollet \in NewWollets : WolletsInsert(name, wollet)
    \/ \E name \in Names : WolletsRemove(name)
    \/ WolletsIter
    \/ \E name \in Names : SignersGet(name)
    \/ \E name \in Names : SignersGetMut(name)
    \/ \E name \in Names : SignersGetAvailable(name)
    \/ \E name \in Names, signer \in AppSigners : SignersInsert(name, signer)
    \/ \E name \in Names : SignersRemove(name)
    \/ SignersIter

Spec == Init /\ [][Next]_vars

\* The wallet registry alone, with handlers that refresh the wallet they
\* get from get_mut.
NextRefresh ==
    \/ \E name \in Names : WolletsGet(name)
    \/ \E name \in Names, t \in 0..MaxTip : WolletsGetMutRefresh(name, t)
    \/ \E name \in Names, wollet \in NewWollets : WolletsInsert(name, wollet)
    \/ \E name \in Names : WolletsRemove(name)
    \/ WolletsIter

SpecRefresh == Init /\ [][NextRefresh]_vars

\* The signer registry alone, with a caller that writes any signer through
\* the reference get_mut returns.
NextWrite ==
    \/ \E name \in Names : SignersGet(name)
    \/ \E name \in Names, s \in AppSigners : SignersGetMutWrite(name, s)
    \/ \E name \in Names : SignersGetAvailable(name)
    \/ \E name \in Names, signer \in AppSigners : SignersInsert(name, signer)
    \/ \E name \in Names : SignersRemove(name)
    \/ SignersIter

SpecWrite == Init /\ [][NextWrite]_vars

\* ------------------------------------------------- handlers and the lock
\* Each handler takes the State lock, makes one call on the signer registry
\* and drops the guard. Signers::insert is split into the three places where
\* it touches the map, so that calls overlap wherever the lock lets them.
Requests ==
    [op : {"Signers::insert"}, name : Names, signer : AppSigners]
        \cup [op : {"Signers::remove"}, name : Names]

\* The outcomes of a call made alone on registry reg.
Outcomes(reg, r) ==
    IF r.op = "Signers::insert"
    THEN Signers_insert(reg, r.name, r.signer)
    ELSE {Signers_remove(reg, r.name)}

\* The handler calls lock() on the State.
Request(h) ==
    /\ pc[h] = "idle"
    /\ pc' = [pc EXCEPT ![h] = "lock"]
    /\ UNCHANGED <<config, wollets, signers, last, lock, req, ret, seq, exp, pvars>>

\* Variant: the guard is handed out while another handler holds it.
Acquire_no_exclusion(h, r) ==
    /\ pc[h] = "lock"
    /\ lock' = lock \cup {h}
    /\ req' = [req EXCEPT ![h] = r]
    /\ pc' = [pc EXCEPT ![h] = IF r.op = "Signers::insert" THEN "contains_key" ELSE "remove"]
    /\ \E out \in Outcomes(seq, r) :
         /\ seq' = out.reg
         /\ exp' = [exp EXCEPT ![h] = out.res]
    /\ UNCHANGED <<config, wollets, signers, last, ret, pvars>>

\* lock() returns the guard: no other handler holds it. The handler goes on
\* with call r; the same call is made on seq.
Acquire(h, r) ==
    /\ pc[h] = "lock"
    /\ lock = {}
    /\ lock' = {h}
    /\ req' = [req EXCEPT ![h] = r]
    /\ pc' = [pc EXCEPT ![h] = IF r.op = "Signers::insert" THEN "contains_key" ELSE "remove"]
    /\ \E out \in Outcomes(seq, r) :
         /\ seq' = out.reg
         /\ exp' = [exp EXCEPT ![h] = out.res]
    /\ UNCHANGED <<config, wollets, signers, last, ret, pvars>>

Return(h, r) ==
    /\ ret' = [ret EXCEPT ![h] = r]
    /\ pc' = [pc EXCEPT ![h] = "unlock"]

\* Variant: no check of the name.
InsertContainsKey_skip(h) ==
    /\ pc[h] = "contains_key"
    /\ pc' = [pc EXCEPT ![h] = "scan"]
    /\ UNCHANGED ret
    /\ UNCHANGED <<config, wollets, signers, last, lock, req, seq, exp, pvars>>

\* Signers::insert, the check of the name.
InsertContainsKey(h) ==
    /\ pc[h] = "contains_key"
    /\ IF contains_key(signers, req[h].name)
       THEN Return(h, SignerAlreadyLoaded(req[h].name))
       ELSE pc' = [pc EXCEPT ![h] = "scan"] /\ UNCHANGED ret
    /\ UNCHANGED <<config, wollets, signers, last, lock, req, seq, exp, pvars>>

\* Variant: on a fingerprint match the handler waits for the entry to go.
InsertScan_wait(h) ==
    /\ pc[h] = "scan"
    /\ IF DOMAIN signers # {}
          /\ (~fingerprint(req[h].signer).ok
              \/ \E n \in DOMAIN signers : ~fingerprint(signers[n]).ok)
       THEN Return(h, Panic)
       ELSE LET vec == {n \in DOMAIN signers :
                           fingerprint(signers[n]) = fingerprint(req[h].signer)} IN
            IF vec # {}
            THEN UNCHANGED <<pc, ret>>
            ELSE pc' = [pc EXCEPT ![h] = "store"] /\ UNCHANGED ret
    /\ UNCHANGED <<config, wollets, signers, last, lock, req, seq, exp, pvars>>

\* Signers::insert, the scan for an entry with the same fingerprint.
InsertScan(h) ==
    /\ pc[h] = "scan"
    /\ IF DOMAIN signers # {}
          /\ (~fingerprint(req[h].signer).ok
              \/ \E n \in DOMAIN signers : ~fingerprint(signers[n]).ok)
       THEN Return(h, Panic)
       ELSE LET vec == {n \in DOMAIN signers :
                           fingerprint(signers[n]) = fingerprint(req[h].signer)} IN
            IF vec # {}
            THEN \E existing \in vec : Return(h, SignerAlreadyLoaded(existing))
            ELSE pc' = [pc EXCEPT ![h] = "store"] /\ UNCHANGED ret
    /\ UNCHANGED <<config, wollets, signers, last, lock, req, seq, exp, pvars>>

\* Signers::insert, self.0.insert and Ok(()).
InsertStore(h) ==
    /\ pc[h] = "store"
    /\ signers' = Put(signers, req[h].name, req[h].signer)
    /\ Return(h, Ok(Unit))
    /\ UNCHANGED <<config, wollets, last, lock, req, seq, exp, pvars>>

\* Signers::remove.
Remove(h) ==
    /\ pc[h] = "remove"
    /\ LET out == Signers_remove(signers, req[h].name) IN
         /\ signers' = out.reg
         /\ Return(h, out.res)
    /\ UNCHANGED <<config, wollets, last, lock, req, seq, exp, pvars>>

\* The guard is dropped, on return or while a panic unwinds.
Release(h) ==
    /\ pc[h] = "unlock"
    /\ lock' = lock \ {h}
    /\ pc' = [pc EXCEPT ![h] = "done"]
    /\ UNCHANGED <<config, wollets, signers, last, req, ret, seq, exp, pvars>>

\* What a handler does once it has asked for the lock.
Progress(h) ==
    \/ \E r \in Requests : Acquire(h, r)
    \/ InsertContainsKey(h)
    \/ InsertScan(h)
    \/ InsertStore(h)
    \/ Remove(h)
    \/ Release(h)

NextLock ==
    \/ \E h \in Handlers : Request(h)
    \/ \E h \in Handlers, r \in Requests : Acquire(h, r)
    \/ \E h \in Handlers : InsertContainsKey(h)
    \/ \E h \in Handlers : InsertScan(h)
    \/ \E h \in Handlers : InsertStore(h)
    \/ \E h \in Handlers : Remove(h)
    \/ \E h \in Handlers : Release(h)

SpecLock == Init /\ [][NextLock]_vars

\* The scheduler runs every handler that can take a step.
SpecLockFair == SpecLock /\ \A h \in Handlers : WF_vars(Progress(h))

\* ------------------------------------------- parse_code_from_markdown
\* A markdown document: blocks that are fenced code blocks with an info
\* string, indented code blocks or paragraphs, all of the same number of
\* lines; closed tells whether a fenced block at the end has its closing
\* fence. The text of line j of block i is the one-letter string <<<<i, j>>>>.
Kinds == {"python", "rust"}
BlockTypes == [type : {"fenced"}, info : Kinds] \cup [type : {"indented", "paragraph"}]

Documents ==
    {d \in [blocks : UNION {[1..n -> BlockTypes] : n \in 0..MaxBlocks},
            lines : 0..MaxLines,
            closed : BOOLEAN] :
        ~d.closed => (d.blocks # << >> /\ d.blocks[Len(d.blocks)].type = "fenced")}

Line(i, j) == <<<<i, j>>>>

RECURSIVE Texts(_, _, _)
\* The Text events of lines j..n of block i, a SoftBreak between the lines
\* of a paragraph.
Texts(d, i, j) ==
    IF j > d.lines THEN << >>
    ELSE <<[event |-> "Text", text |-> Line(i, j)]>>
         \o (IF d.blocks[i].type = "paragraph" /\ j < d.lines
             THEN <<[event |-> "SoftBreak"]>> ELSE << >>)
         \o Texts(d, i, j + 1)

\* The tag of block i: CodeBlock(Fenced(info)), CodeBlock(Indented), Paragraph.
Tag(b) ==
    IF b.type = "fenced" THEN [tag |-> "CodeBlock", kind |-> "Fenced", info |-> b.info]
    ELSE IF b.type = "indented" THEN [tag |-> "CodeBlock", kind |-> "Indented"]
    ELSE [tag |-> "Paragraph"]

RECURSIVE Events(_, _)
\* The events pulldown_cmark::Parser gives for blocks i.. of the document:
\* Start(tag), the text, End(tag); a block without text that is no fenced
\* block gives nothing, and a fenced block open at the end of the input is
\* ended there.
Events(d, i) ==
    IF i > Len(d.blocks) THEN << >>
    ELSE (IF d.blocks[i].type # "fenced" /\ d.lines = 0
          THEN << >>
          ELSE <<[event |-> "Start", tag |-> Tag(d.blocks[i])]>>
               \o Texts(d, i, 1)
               \o <<[event |-> "End", tag |-> Tag(d.blocks[i])]>>)
         \o Events(d, i + 1)

InitParse ==
    /\ InitState
    /\ InitHandlers
    /\ \E d \in Documents, kind \in Kinds :
         /\ markdown_input = d
         /\ code_kind = kind
         /\ parser = Events(d, 1)
    /\ result = << >>
    /\ str = << >>
    /\ active = FALSE

\* el is Start or End of CodeBlock(Fenced(current)) with code_kind == current.
IsFenced(el, startOrEnd) ==
    /\ el.event = startOrEnd
    /\ el.tag.tag = "CodeBlock"
    /\ el.tag.kind = "Fenced"
    /\ code_kind = el.tag.info

\* The arm Event::Start(Tag::CodeBlock(CodeBlockKind::Fenced(current))).
ParseStart ==
    /\ parser # << >>
    /\ IsFenced(Head(parser), "Start")
    /\ active' = TRUE
    /\ parser' = Tail(parser)
    /\ UNCHANGED <<config, wollets, signers, last, hvars,
                   markdown_input, code_kind, result, str>>

\* The arm Event::Text(t).
ParseText ==
    /\ parser # << >>
    /\ ~IsFenced(Head(parser), "Start")
    /\ Head(parser).event = "Text"
    /\ str' = IF active THEN str \o Head(parser).text ELSE str
    /\ parser' = Tail(parser)
    /\ UNCHANGED <<config, wollets, signers, last, hvars,
                   markdown_input, code_kind, result, active>>

\* Variant: str is not cleared after it is pushed.
ParseEnd_keep_str ==
    /\ parser # << >>
    /\ IsFenced(Head(parser), "End")
    /\ result' = Append(result, str)
    /\ active' = FALSE
    /\ parser' = Tail(parser)
    /\ UNCHANGED <<config, wollets, signers, last, hvars,
                   markdown_input, code_kind, str>>

\* The arm Event::End(Tag::CodeBlock(CodeBlockKind::Fenced(current))).
ParseEnd ==
    /\ parser # << >>
    /\ IsFenced(Head(parser), "End")
    /\ result' = Append(result, str)
    /\ str' = << >>
    /\ active' = FALSE
    /\ parser' = Tail(parser)
    /\ UNCHANGED <<config, wollets, signers, last, hvars,
                   markdown_input, code_kind>>

\* The arm _ => ().
ParseOther ==
    /\ parser # << >>
    /\ ~IsFenced(Head(parser), "Start")
    /\ Head(parser).event # "Text"
    /\ ~IsFenced(Head(parser), "End")
    /\ parser' = Tail(parser)
    /\ UNCHANGED <<config, wollets, signers, last, hvars,
                   markdown_input, code_kind, result, str, active>>

NextParse ==
    \/ ParseStart
    \/ ParseText
    \/ ParseEnd
    \/ ParseOther

SpecParse == InitParse /\ [][NextParse]_vars

\* ================================================================ claims
\* Two signers have the same fingerprint() when both derive one and the
\* two are equal; two wallets likewise for the address at index 0.
SameFingerprint(s1, s2) == fingerprint(s1).ok /\ fingerprint(s1) = fingerprint(s2)
SameAddress(w1, w2) == a(w1).ok /\ a(w1) = a(w2)

FingerprintUnique(map) ==
    \A n, m \in DOMAIN map : n # m => ~SameFingerprint(map[n], map[m])
AddressUnique(map) ==
    \A n, m \in DOMAIN map : n # m => ~SameAddress(map[n], map[m])

\* The step is a write through the reference of Signers::get_mut that
\* changes what the entry's fingerprint() gives.
FingerprintChangingWrite ==
    /\ last'.op = "Signers::get_mut"
    /\ last'.res.kind = "Ok"
    /\ fingerprint(signers'[last'.name]) # fingerprint(signers[last'.name])

\* C1 as stated: no two entries of the signer registry have the same
\* fingerprint(), whatever the caller writes through get_mut's reference.
C1_FingerprintUniqueUnderAnyWrite == FingerprintUnique(signers)

\* C1 amended: every call other than a write through get_mut's reference
\* that changes the entry's fingerprint keeps the signer registry free of
\* two entries with the same fingerprint().
C1_FingerprintUniqueKept ==
    [][(FingerprintUnique(signers) /\ ~FingerprintChangingWrite)
           => FingerprintUnique(signers')]_vars

C1_Witness ==
    /\ last.op = "Signers::get_mut"
    /\ last.res.kind = "Ok"
    /\ last.res.val.variant # signers[last.name].variant
    /\ Cardinality(DOMAIN signers) >= 2
    /\ FingerprintUnique(signers)

\* C2: no two entries of the wallet registry have the same first receiving
\* address, in every state reached by insert, get, get_mut, remove and iter.
C2_AddressUnique == AddressUnique(wollets)

C2_Witness ==
    /\ Cardinality(DOMAIN wollets) >= 2
    /\ last.op = "Wollets::get_mut"
    /\ last.res.kind = "Ok"
    /\ wollets[last.name].tip # last.res.val.tip

\* C3: an insert that returns an error leaves its registry with exactly the
\* entries it had before the call, so iter() yields the same entries.
C3_NoPartialMutation ==
    [][/\ (last'.op = "Wollets::insert" /\ IsErr(last'.res))
            => Wollets_iter(wollets') = Wollets_iter(wollets)
       /\ (last'.op = "Signers::insert" /\ IsErr(last'.res))
            => Signers_iter(signers') = Signers_iter(signers)]_vars

C3_Witness ==
    /\ last.op = "Wollets::insert"
    /\ IsErr(last.res)
    /\ last.res.name # last.name
    /\ BagCardinality(Wollets_iter(wollets)) = 1

\* C4: inserting, under an absent name N2, a wallet whose first receiving
\* address is that of the entry under N1 fails with AlreadyLoaded(N1), and
\* N2 is not in the registry afterwards.
C4_CollisionNamesHolder ==
    \A n1 \in DOMAIN wollets, n2 \in Names \ DOMAIN wollets, w \in NewWollets :
        SameAddress(w, wollets[n1]) =>
            \A out \in Wollets_insert(wollets, n2, w) :
                /\ out.res = WalletAlreadyLoaded(n1)
                /\ ~contains_key(out.reg, n2)

C4_Witness ==
    /\ last.op = "Wollets::insert"
    /\ last.res.kind = "WalletAlreadyLoaded"
    /\ last.res.name # last.name
    /\ ~contains_key(wollets, last.name)
    /\ SameAddress(last.arg, wollets[last.res.name])
    /\ last.arg.descriptor # wollets[last.res.name].descriptor

\* C5: inserting, under an absent name N2, a signer whose fingerprint is
\* that of the entry under N1 fails with AlreadyLoaded(N1) and leaves the
\* registry unchanged, whatever the variants of the two signers.
C5_CollisionAcrossVariants ==
    \A n1 \in DOMAIN signers, n2 \in Names \ DOMAIN signers, s \in AppSigners :
        SameFingerprint(s, signers[n1]) =>
            \A out \in Signers_insert(signers, n2, s) :
                /\ out.res = SignerAlreadyLoaded(n1)
                /\ out.reg = signers

C5_Witness ==
    /\ last.op = "Signers::insert"
    /\ last.res.kind = "SignerAlreadyLoaded"
    /\ last.res.name # last.name
    /\ SameFingerprint(last.arg, signers[last.res.name])
    /\ last.arg.variant # signers[last.res.name].variant

\* C6: insert under a name that already holds an entry A fails with
\* AlreadyLoaded(that name), and get(name) still returns A.
C6_UniqueByName ==
    /\ \A name \in DOMAIN wollets, B \in NewWollets :
          \A out \in Wollets_insert(wollets, name, B) :
              /\ out.res = WalletAlreadyLoaded(name)
              /\ Wollets_get(out.reg, name) = Ok(wollets[name])
    /\ \A name \in DOMAIN signers, B \in AppSigners :
          \A out \in Signers_insert(signers, name, B) :
              /\ out.res = SignerAlreadyLoaded(name)
              /\ Signers_get(out.reg, name) = Ok(signers[name])

C6_Witness ==
    /\ last.op = "Signers::insert"
    /\ last.res = SignerAlreadyLoaded(last.name)
    /\ last.arg # signers[last.name]
    /\ ~SameFingerprint(last.arg, signers[last.name])

\* C7: get_available(name) fails with NotFound(name) iff name is absent, fails
\* with the external-signer error iff name holds an ExternalSigner, and
\* returns the wrapped signer iff name holds an AvailableSigner.
C7_CapabilityGating ==
    \A name \in Names :
        LET r == Signers_get_available(signers, name) IN
        /\ r.kind \in {"SignerNotExist", "Generic", "Ok"}
        /\ r.kind = "SignerNotExist" <=> ~contains_key(signers, name)
        /\ r.kind = "SignerNotExist" => r = SignerNotExist(name)
        /\ r.kind = "Generic" <=>
              (contains_key(signers, name) /\ signers[name].variant = "ExternalSigner")
        /\ r.kind = "Ok" <=>
              (contains_key(signers, name) /\ signers[name].variant = "AvailableSigner")
        /\ r.kind = "Ok" => r.val = signers[name].signer

C7_Witness ==
    /\ last.op = "Signers::get_available"
    /\ last.res.kind = "Generic"
    /\ signers[last.name].variant = "ExternalSigner"
    /\ \E n \in DOMAIN signers : Signers_get_available(signers, n).kind = "Ok"

\* C8: after a successful insert(name, x), get(name) returns x, remove(name)
\* returns x, and get(name) after that remove fails with NotFound(name).
C8_RoundTrip ==
    /\ \A name \in Names, x \in NewWollets :
          \A out \in Wollets_insert(wollets, name, x) :
              out.res.kind = "Ok" =>
                  LET rem == Wollets_remove(out.reg, name) IN
                  /\ Wollets_get(out.reg, name) = Ok(x)
                  /\ rem.res = Ok(x)
                  /\ Wollets_get(rem.reg, name) = WalletNotExist(name)
    /\ \A name \in Names, x \in AppSigners :
          \A out \in Signers_insert(signers, name, x) :
              out.res.kind = "Ok" =>
                  LET rem == Signers_remove(out.reg, name) IN
                  /\ Signers_get(out.reg, name) = Ok(x)
                  /\ rem.res = Ok(x)
                  /\ Signers_get(rem.reg, name) = SignerNotExist(name)

C8_Witness ==
    /\ last.op = "Wollets::remove"
    /\ last.res.kind = "Ok"
    /\ Wollets_get(wollets, last.name) = WalletNotExist(last.name)
    /\ wollets # Empty

\* What get, get_mut and remove return on the registries as they are.
NotFoundOnAbsent ==
    \A name \in Names :
        /\ ~contains_key(wollets, name) =>
              /\ Wollets_get(wollets, name) = WalletNotExist(name)
              /\ Wollets_get_mut(wollets, name) = WalletNotExist(name)
              /\ Wollets_remove(wollets, name) =
                     [reg |-> wollets, res |-> WalletNotExist(name)]
        /\ contains_key(wollets, name) =>
              /\ Wollets_get(wollets, name).kind = "Ok"
              /\ Wollets_get_mut(wollets, name).kind = "Ok"
              /\ Wollets_remove(wollets, name).res.kind = "Ok"
        /\ ~contains_key(signers, name) =>
              /\ Signers_get(signers, name) = SignerNotExist(name)
              /\ Signers_get_mut(signers, name) = SignerNotExist(name)
              /\ Signers_remove(signers, name) =
                     [reg |-> signers, res |-> SignerNotExist(name)]
        /\ contains_key(signers, name) =>
              /\ Signers_get(signers, name).kind = "Ok"
              /\ Signers_get_mut(signers, name).kind = "Ok"
              /\ Signers_remove(signers, name).res.kind = "Ok"

\* C9: get, get_mut and remove of a name with no entry fail with NotFound
\* carrying that name and leave the registry unchanged; for a name with an
\* entry they succeed.
C9_NotFoundOnAbsent ==
    /\ []NotFoundOnAbsent
    /\ [][(last'.op \in {"Wollets::get", "Wollets::get_mut", "Wollets::remove",
                         "Signers::get", "Signers::get_mut", "Signers::remove"}
            /\ IsErr(last'.res))
              => /\ last'.res.name = last'.name
                 /\ UNCHANGED <<wollets, signers>>]_vars

C9_Witness ==
    /\ last.op = "Signers::remove"
    /\ last.res = SignerNotExist(last.name)
    /\ signers # Empty

\* C10: no registry operation panics, except a signer insert that derives
\* the fingerprint of an AvailableSigner whose fingerprint() fails; wallet
\* insert never panics while computing first receiving addresses.
C10_OnlyFingerprintPanics ==
    last.res.kind = "Panic" =>
        /\ last.op = "Signers::insert"
        /\ \E s \in {last.arg} \cup {signers[n] : n \in DOMAIN signers} :
              s.variant = "AvailableSigner" /\ ~fingerprint(s).ok

\* The calls of each registry, by the name they are recorded under.
WolletsOps ==
    {"Wollets::get", "Wollets::get_mut", "Wollets::insert", "Wollets::remove", "Wollets::iter"}
SignersOps ==
    {"Signers::get", "Signers::get_mut", "Signers::get_available", "Signers::insert",
     "Signers::remove", "Signers::iter"}

\* C13: a call on one registry leaves the other unchanged, and what an insert
\* returns and stores is decided by its own registry alone, so a name may be
\* held in both registries at once.
C13_IndependentNamespaces ==
    [][/\ last'.op \in WolletsOps => signers' = signers
       /\ last'.op \in SignersOps => wollets' = wollets
       /\ last'.op = "Wollets::insert" =>
             \E out \in Wollets_insert(wollets, last'.name, last'.arg) :
                 last'.res = out.res /\ wollets' = out.reg
       /\ last'.op = "Signers::insert" =>
             \E out \in Signers_insert(signers, last'.name, last'.arg) :
                 last'.res = out.res /\ signers' = out.reg]_vars

C13_Witness ==
    /\ last.op = "Wollets::insert"
    /\ last.res.kind = "Ok"
    /\ contains_key(signers, last.name)
    /\ contains_key(wollets, last.name)

\* The number of items with the given name among those an iterator yields.
Yields(items, name) ==
    BagCardinality([e \in {x \in BagToSet(items) : x[1] = name} |-> items[e]])

\* C14: each registry holds at most one entry per name, and iter() yields
\* each loaded name exactly once (and no other name).
C14_NameUnique ==
    \A name \in Names :
        /\ Yields(Wollets_iter(wollets), name) = IF contains_key(wollets, name) THEN 1 ELSE 0
        /\ Yields(Signers_iter(signers), name) = IF contains_key(signers, name) THEN 1 ELSE 0

C14_Witness ==
    /\ last.op = "Signers::iter"
    /\ BagCardinality(last.res.val) >= 2
    /\ \A name \in DOMAIN signers : Yields(last.res.val, name) = 1

\* C15: insert returns success exactly when the name is absent and no entry
\* has the new entity's identity; on success the registry is the old one plus
\* the entry (name, x); AlreadyLoaded is the only other outcome.
C15_InsertSucceedsIffAllowed ==
    /\ \A name \in Names, x \in NewWollets :
          \A out \in Wollets_insert(wollets, name, x) :
              /\ out.res.kind \in {"Ok", "WalletAlreadyLoaded"}
              /\ out.res.kind = "Ok" <=>
                    (/\ ~contains_key(wollets, name)
                     /\ \A n \in DOMAIN wollets : ~SameAddress(wollets[n], x))
              /\ out.res.kind = "Ok" => out.reg = Put(wollets, name, x)
    /\ \A name \in Names, x \in AppSigners :
          \A out \in Signers_insert(signers, name, x) :
              /\ out.res.kind \in {"Ok", "SignerAlreadyLoaded"}
              /\ out.res.kind = "Ok" <=>
                    (/\ ~contains_key(signers, name)
                     /\ \A n \in DOMAIN signers : ~SameFingerprint(signers[n], x))
              /\ out.res.kind = "Ok" => out.reg = Put(signers, name, x)

\* C16: iter() yields exactly the (name, entity) pairs inserted with success
\* and not removed since, and does not change the registry.
C16_IterSnapshot ==
    [][/\ Wollets_iter(wollets') =
             IF last'.op = "Wollets::insert" /\ last'.res.kind = "Ok"
             THEN Wollets_iter(wollets) (+) SetToBag({<<last'.name, last'.arg>>})
             ELSE IF last'.op = "Wollets::remove" /\ last'.res.kind = "Ok"
             THEN Wollets_iter(wollets) (-) SetToBag({<<last'.name, last'.res.val>>})
             ELSE Wollets_iter(wollets)
       /\ Signers_iter(signers') =
             IF last'.op = "Signers::insert" /\ last'.res.kind = "Ok"
             THEN Signers_iter(signers) (+) SetToBag({<<last'.name, last'.arg>>})
             ELSE IF last'.op = "Signers::remove" /\ last'.res.kind = "Ok"
             THEN Signers_iter(signers) (-) SetToBag({<<last'.name, last'.res.val>>})
             ELSE Signers_iter(signers)
       /\ last'.op = "Wollets::iter" => last'.res = Ok(Wollets_iter(wollets))
       /\ last'.op = "Signers::iter" => last'.res = Ok(Signers_iter(signers))]_vars

C16_Witness ==
    /\ last.op = "Wollets::iter"
    /\ BagCardinality(last.res.val) >= 2
    /\ last.res.val = Wollets_iter(wollets)

\* C17: an insert that collides by name and, with another entry M, by
\* identity fails with AlreadyLoaded(the rejected name), never with M.
C17_NameCheckFirst ==
    /\ \A name \in DOMAIN wollets, x \in NewWollets :
          \A M \in DOMAIN wollets \ {name} :
          SameAddress(x, wollets[M]) =>
              \A out \in Wollets_insert(wollets, name, x) :
                  out.res = WalletAlreadyLoaded(name)
    /\ \A name \in DOMAIN signers, x \in AppSigners :
          \A M \in DOMAIN signers \ {name} :
          SameFingerprint(x, signers[M]) =>
              \A out \in Signers_insert(signers, name, x) :
                  out.res = SignerAlreadyLoaded(name)

C17_Witness ==
    /\ last.op = "Wollets::insert"
    /\ last.res = WalletAlreadyLoaded(last.name)
    /\ \E M \in DOMAIN wollets \ {last.name} : SameAddress(last.arg, wollets[M])

\* C18: remove(name) of entry x deletes that entry alone; after it, an insert
\* under name of any entity that collides with no entry succeeds, and an
\* insert of an entity with x's identity under any absent name succeeds.
C18_RemovalFreesBothKeys ==
    /\ \A name \in DOMAIN wollets :
          LET x == wollets[name]
              rem == Wollets_remove(wollets, name) IN
          /\ rem.res = Ok(x)
          /\ rem.reg = [n \in DOMAIN wollets \ {name} |-> wollets[n]]
          /\ \A y \in NewWollets :
                (\A n \in DOMAIN rem.reg : ~SameAddress(rem.reg[n], y)) =>
                    \A out \in Wollets_insert(rem.reg, name, y) : out.res.kind = "Ok"
          /\ \A n2 \in Names \ DOMAIN rem.reg, y \in NewWollets :
                SameAddress(x, y) =>
                    \A out \in Wollets_insert(rem.reg, n2, y) : out.res.kind = "Ok"
    /\ \A name \in DOMAIN signers :
          LET x == signers[name]
              rem == Signers_remove(signers, name) IN
          /\ rem.res = Ok(x)
          /\ rem.reg = [n \in DOMAIN signers \ {name} |-> signers[n]]
          /\ \A y \in AppSigners :
                (\A n \in DOMAIN rem.reg : ~SameFingerprint(rem.reg[n], y)) =>
                    \A out \in Signers_insert(rem.reg, name, y) : out.res.kind = "Ok"
          /\ \A n2 \in Names \ DOMAIN rem.reg, y \in AppSigners :
                SameFingerprint(x, y) =>
                    \A out \in Signers_insert(rem.reg, n2, y) : out.res.kind = "Ok"

\* C19: get, get_available and iter, whether they succeed or fail, leave the
\* entries of both registries and the configuration as they were.
C19_ReadOnly ==
    [][last'.op \in {"Wollets::get", "Wollets::iter", "Signers::get",
                     "Signers::get_available", "Signers::iter"}
           => UNCHANGED <<config, wollets, signers>>]_vars

C19_Witness ==
    /\ last.op = "Signers::get_available"
    /\ last.res.kind = "Ok"
    /\ contains_key(signers, last.name)
    /\ wollets # Empty

\* C11: with the lock, the results of the handlers and the registry they
\* leave are those of the same calls made one after the other in the order
\* the lock was taken; two inserts with the same name or the same fingerprint
\* never both succeed.
C11_Linearizable ==
    /\ \A h \in Handlers : pc[h] = "done" => ret[h] = exp[h]
    /\ lock = {} => signers = seq
    /\ FingerprintUnique(signers)
    /\ (\A h \in Handlers : req[h].op # "Signers::remove") =>
          \A h1, h2 \in Handlers :
              (h1 # h2 /\ ret[h1] = Ok(Unit) /\ ret[h2] = Ok(Unit)) =>
                  /\ req[h1].name # req[h2].name
                  /\ ~SameFingerprint(req[h1].signer, req[h2].signer)

C11_Witness ==
    \E h1, h2 \in Handlers :
        /\ h1 # h2
        /\ pc[h1] = "done" /\ pc[h2] = "done"
        /\ req[h1].op = "Signers::insert" /\ req[h2].op = "Signers::insert"
        /\ req[h1].name # req[h2].name
        /\ req[h1].signer # req[h2].signer
        /\ ret[h1] = Ok(Unit)
        /\ ret[h2] = SignerAlreadyLoaded(req[h1].name)

\* Some handler that has asked for the lock and is not done can take a step.
NoDeadlock ==
    (\E h \in Handlers : pc[h] \notin {"idle", "done"})
        => ENABLED (\E h \in Handlers : Progress(h))

\* C12: no reachable state is a deadlock, and every handler that asks for
\* the lock ends its call and drops the guard.
C12_EveryHandlerCompletes ==
    /\ []NoDeadlock
    /\ \A h \in Handlers : (pc[h] = "lock") ~> (pc[h] = "done")

C12_Witness ==
    /\ \A h \in Handlers : pc[h] = "done"
    /\ \E h \in Handlers : ret[h].kind = "Ok"
    /\ lock = {}

RECURSIVE BlockText(_, _, _)
\* The text of lines j.. of block i of the document.
BlockText(d, i, j) ==
    IF j > d.lines THEN << >> ELSE Line(i, j) \o BlockText(d, i, j + 1)

RECURSIVE CodeOf(_, _, _)
\* The texts of the fenced blocks i.. of the document whose info string is
\* kind, in the order of the document.
CodeOf(d, kind, i) ==
    IF i > Len(d.blocks) THEN << >>
    ELSE (IF d.blocks[i].type = "fenced" /\ d.blocks[i].info = kind
          THEN <<BlockText(d, i, 1)>> ELSE << >>)
         \o CodeOf(d, kind, i + 1)

\* C20: parse_code_from_markdown returns, in the order of the document, the
\* text of every fenced block whose info string is the kind asked for and of
\* no other block or paragraph, a last block without closing fence included.
C20_ParseCode ==
    parser = << >> => result = CodeOf(markdown_input, code_kind, 1)

C20_Witness ==
    /\ parser = << >>
    /\ ~markdown_input.closed
    /\ markdown_input.lines >= 2
    /\ Len(result) >= 2
    /\ \E i \in DOMAIN markdown_input.blocks :
          /\ markdown_input.blocks[i].type = "fenced"
          /\ markdown_input.blocks[i].info # code_kind
    /\ markdown_input.blocks[Len(markdown_input.blocks)].info = code_kind

====
